---- MODULE Spec2Model ----
(***************************************************************************)
(* Model of pachyderm-github-action/run.py: the change-detection decision  *)
(* of main and the build / push / update sequence of build_and_update.     *)
(*                                                                         *)
(* Paths are sequences of components.  An absolute path starts with the    *)
(* component "/"; every other sequence is a relative path.  Component      *)
(* names are drawn from a set in which no name is a string prefix of       *)
(* another name or of one of rsync's banner lines, so str.startswith on an *)
(* output line coincides with equality of the first component.             *)
(***************************************************************************)
EXTENDS Integers, Sequences, FiniteSets, TLC

VARIABLES
    argCase,        \* what sys.argv / the file system give the entry block
    cfgDir,         \* directory of the (resolved) config file
    buildDirRel,    \* "build_dir" of the config file, relative to cfgDir
    imageName,      \* "image_name" of the config file
    sha,            \* environment variable GITHUB_SHA
    hasParent,      \* whether HEAD^ exists (git diff succeeds)
    gitOut,         \* stdout lines of `git diff --name-only HEAD^..HEAD`
    hasIgnore,      \* whether build_dir/.dockerignore exists
    specDoc,        \* parsed content of the pipeline spec file
    remote,         \* the target pipeline on the cluster, or Absent
    pc,             \* position of the run
    exitCode,       \* <<status>> once the process has exited, <<>> before
    config,         \* Config record built by parse_config, or Absent
    tagged_image,   \* local of main, "" before it is assigned
    exists,         \* <<answer>> of check_pipeline_exists, <<>> before
    diff,           \* local of main: result of git_diff
    build_context,  \* local of main: result of list_docker_context
    decision,       \* "none", "rebuild" or "skip"
    calls,          \* external commands / requests issued by this run
    submitted,      \* document passed to create_pipeline_v2, or Absent
    runs,           \* number of the current run
    remoteAtStart,  \* the cluster's definition when the current run started
    doneRemote      \* remote definition recorded at the end of each Done run

inputs == <<argCase, cfgDir, buildDirRel, imageName, sha, hasParent, gitOut,
            hasIgnore, specDoc>>
locals == <<config, tagged_image, exists, diff, build_context, decision,
            calls, submitted>>
vars == <<inputs, locals, remote, pc, exitCode, runs, remoteAtStart, doneRemote>>

\* a variable that holds no document, record or answer yet
Absent == [absent |-> TRUE]

----------------------------------------------------------------------------
(* Bounds *)

MaxDiff == 2      \* longest git diff output considered
MaxRuns == 2      \* runs of the action on the same commit (CI re-run)

----------------------------------------------------------------------------
(* Sequences and paths *)

Range(s) == {s[i] : i \in DOMAIN s}

IsPrefix(a, b) == Len(a) <= Len(b) /\ SubSeq(b, 1, Len(a)) = a

Drop(s, n) == SubSeq(s, n + 1, Len(s))

InjSeqs(S, n) ==
    UNION {{s \in [1..k -> S] : \A i, j \in 1..k : s[i] = s[j] => i = j} : k \in 0..n}

\* working directory of the process: the checked-out repository
Cwd == <<"/", "w">>

IsAbsolute(p) == p # <<>> /\ p[1] = "/"

\* Path.resolve(): a relative path is taken relative to the working directory
resolve(p) == IF IsAbsolute(p) THEN p ELSE Cwd \o p

\* Path.name: the last component
name(p) == p[Len(p)]

\* files changed by the commit, as git prints them (relative to the repository root)
ChangedPaths ==
    { <<"spec.json">>, <<"app", "f">>, <<"app", "g">>,
      <<"sub", "spec.json">>, <<"sub", "app", "f">>, <<"docs", "r">> }

\* the regular files of the checkout
Files(bd, ign) ==
    {Cwd \o p : p \in ChangedPaths}
      \cup (IF ign THEN {bd \o <<".dockerignore">>} ELSE {})

\* patterns listed in .dockerignore
IgnorePatterns == {"g"}

----------------------------------------------------------------------------
(* JSON documents: a dict is a function from keys to values *)

\* d[k] = v on a dict
SetKey(d, k, v) == [x \in (DOMAIN d) \cup {k} |-> IF x = k THEN v ELSE d[x]]

\* contents the pipeline spec file may have
SpecDocs ==
    { [pipeline |-> [name |-> "edges"],
       transform |-> [image |-> "old", cmd |-> "run"],
       input |-> "images"],
      [pipeline |-> [name |-> "edges"],
       transform |-> [cmd |-> "run"],
       input |-> "images"],
      [pipeline |-> [name |-> "edges"],
       input |-> "images"] }

\* definition the cluster holds before the first run, when it holds one
DeployedDoc ==
    [pipeline |-> [name |-> "edges"],
     transform |-> [image |-> "old", cmd |-> "run"],
     input |-> "images"]

----------------------------------------------------------------------------
(* The functions of run.py *)

\* class Config, filled by parse_config: every path is joined to the
\* directory of the config file
parse_config(dir, build_dir, image) ==
    [pipeline_spec  |-> dir \o <<"spec.json">>,
     dockerfile     |-> dir \o <<"Dockerfile">>,
     docker_context |-> dir \o build_dir,
     image_name     |-> image]

\* f"{config.image_name}:{sha}"
TaggedImage(image, commit) == image \o ":" \o commit

\* client.pps.pipeline_exists(pipeline)
check_pipeline_exists(cluster) == cluster # Absent

\* every stdout line of git, resolved against the working directory
git_diff(stdout) == [i \in 1..Len(stdout) |-> resolve(stdout[i])]

\* files and directories of the tree rooted at build_dir
Tree(build_dir, fs) ==
    UNION {{SubSeq(f, 1, k) : k \in Len(build_dir)..Len(f)} :
               f \in {g \in fs : IsPrefix(build_dir, g)}}

\* rsync --exclude-from: a pattern without "/" matches a name at any depth
Excluded(line, patterns) == \E i \in DOMAIN line : line[i] \in patterns

\* stdout of `rsync -avn build_dir /dev/shm [--exclude-from ...]`: the banner
\* lines and one line per transferred entry, each starting with the name of
\* build_dir
rsync_stdout(build_dir, fs, patterns) ==
    { <<"sending incremental file list">>, <<>>, <<"sent 0 bytes">>,
      <<"total size is 0">> }
      \cup {l \in {<<name(build_dir)>> \o Drop(p, Len(build_dir)) :
                       p \in Tree(build_dir, fs)} : ~Excluded(l, patterns)}

\* file.startswith(build_dir.name)
startswith(line, prefix) == line # <<>> /\ line[1] = prefix

\* the exclude list is passed only when build_dir/.dockerignore exists; the
\* kept lines are resolved against the working directory
list_docker_context(build_dir, fs) ==
    LET docker_ignore == build_dir \o <<".dockerignore">>
        patterns == IF docker_ignore \in fs THEN IgnorePatterns ELSE {}
    IN  {resolve(l) : l \in {x \in rsync_stdout(build_dir, fs, patterns) :
                                 startswith(x, name(build_dir))}}

\* the test of line 22 without its negation
main_bootstrap_inverted(ex) == ex

\* line 22: not check_pipeline_exists(...)
main_bootstrap(ex) == ~ex

\* the spec path compared with the first changed file only
main_spec_changed_first(cfg, d) == d # <<>> /\ resolve(cfg.pipeline_spec) = Head(d)

\* line 28: config.pipeline_spec.resolve() in diff
main_spec_changed(cfg, d) == resolve(cfg.pipeline_spec) \in Range(d)

\* the loop with the else bound to the if: only the first file is tested
main_loop_first(d, ctx) == d # <<>> /\ Head(d) \in ctx

\* the loop with a found-flag that starts out set
main_loop_flag(d, ctx) == d = <<>> \/ \E i \in DOMAIN d : d[i] \in ctx

\* lines 34-40: the for / else loop; TRUE when it leaves by break
RECURSIVE main_loop(_, _)
main_loop(d, ctx) ==
    IF d = <<>> THEN FALSE
    ELSE IF Head(d) \in ctx THEN TRUE
    ELSE main_loop(Tail(d), ctx)

\* the else branch without its exit(0): execution falls through to line 42
main_after_loop_fallthrough(found) == "building"

\* lines 37-42: the else branch ends the process, a break goes on to
\* build_and_update
main_after_loop(found) == IF found THEN "building" ELSE "skipped"

\* lines 22-42: the decision main takes for an existence answer, a diff and a
\* build context listing
Decide(ex, cfg, d, ctx) ==
    IF main_bootstrap(ex) THEN "rebuild"
    ELSE IF main_spec_changed(cfg, d) THEN "rebuild"
    ELSE IF main_loop(d, ctx) THEN "rebuild"
    ELSE "skip"

\* subprocess.run(..., check=...): raises on a nonzero exit only with check
run(ok, check) == IF check /\ ~ok THEN "raise" ELSE "return"

\* docker build without check=True
build_image_nocheck(ok) == run(ok, FALSE)

\* line 84: docker build, check=True
build_image(ok) == run(ok, TRUE)

\* docker push without check=True
push_image_nocheck(image, loginOk, pushOk) ==
    IF run(loginOk, TRUE) = "raise"
    THEN [issued |-> <<[cmd |-> "login", arg |-> "-", ok |-> loginOk]>>,
          result |-> "raise"]
    ELSE [issued |-> <<[cmd |-> "login", arg |-> "-", ok |-> loginOk],
                       [cmd |-> "push", arg |-> image, ok |-> pushOk]>>,
          result |-> run(pushOk, FALSE)]

\* lines 90 and 92: docker login and docker push, both check=True; the list
\* of commands issued and the outcome
push_image(image, loginOk, pushOk) ==
    IF run(loginOk, TRUE) = "raise"
    THEN [issued |-> <<[cmd |-> "login", arg |-> "-", ok |-> loginOk]>>,
          result |-> "raise"]
    ELSE [issued |-> <<[cmd |-> "login", arg |-> "-", ok |-> loginOk],
                       [cmd |-> "push", arg |-> image, ok |-> pushOk]>>,
          result |-> run(pushOk, TRUE)]

\* parsed["transform"] = {"image": image_name}: the whole object replaced
UpdatedDoc_replace(parsed, image) ==
    [parsed EXCEPT !.transform = [image |-> image]]

\* lines 99-100: the document update_pipeline submits
UpdatedDoc(parsed, image) ==
    [parsed EXCEPT !.transform = SetKey(parsed.transform, "image", image)]

\* create_pipeline_v2(..., update=...) on the cluster: create or replace;
\* creating over an existing pipeline without update is rejected
create_pipeline_v2(cluster, doc, update) ==
    IF cluster # Absent /\ ~update
    THEN [result |-> "raise", cluster |-> cluster]
    ELSE [result |-> "return", cluster |-> doc]

\* update_pipeline calling create_pipeline_v2 without update=True
update_pipeline_noupdate(parsed, image, cluster, ok) ==
    IF "transform" \notin DOMAIN parsed
    THEN [result |-> "raise", submitted |-> Absent, cluster |-> cluster]
    ELSE IF ~ok
    THEN [result |-> "raise", submitted |-> UpdatedDoc(parsed, image),
          cluster |-> cluster]
    ELSE [result |-> create_pipeline_v2(cluster, UpdatedDoc(parsed, image), FALSE).result,
          submitted |-> UpdatedDoc(parsed, image),
          cluster |-> create_pipeline_v2(cluster, UpdatedDoc(parsed, image), FALSE).cluster]

\* lines 95-106: parsed["transform"] raises KeyError when the spec file has
\* no transform; otherwise the document is submitted with update=True, and
\* a request the cluster does not accept (ok = FALSE) raises
update_pipeline(parsed, image, cluster, ok) ==
    IF "transform" \notin DOMAIN parsed
    THEN [result |-> "raise", submitted |-> Absent, cluster |-> cluster]
    ELSE IF ~ok
    THEN [result |-> "raise", submitted |-> UpdatedDoc(parsed, image),
          cluster |-> cluster]
    ELSE [result |-> create_pipeline_v2(cluster, UpdatedDoc(parsed, image), TRUE).result,
          submitted |-> UpdatedDoc(parsed, image),
          cluster |-> create_pipeline_v2(cluster, UpdatedDoc(parsed, image), TRUE).cluster]

\* exit status of the interpreter: exit(n), normal end, uncaught exception
ExitOk == 0
ExitError == 1

----------------------------------------------------------------------------
(* State machine *)

NoLocals ==
    /\ config = Absent
    /\ tagged_image = ""
    /\ exists = <<>>
    /\ diff = <<>>
    /\ build_context = {}
    /\ decision = "none"
    /\ calls = <<>>
    /\ submitted = Absent

Init ==
    /\ argCase \in {"noarg", "nofile", "badconfig", "ok"}
    /\ cfgDir \in {Cwd, Cwd \o <<"sub">>}
    /\ buildDirRel \in {<<"app">>, <<>>}
    /\ imageName = "myimage"
    /\ sha \in {"abc123", "def456"}
    /\ hasParent \in BOOLEAN
    /\ gitOut \in InjSeqs(ChangedPaths, MaxDiff)
    /\ ~hasParent => gitOut = <<>>
    /\ hasIgnore \in BOOLEAN
    /\ specDoc \in SpecDocs
    /\ remote \in {Absent, DeployedDoc}
    /\ pc = "start"
    /\ exitCode = <<>>
    /\ NoLocals
    /\ runs = 1
    /\ remoteAtStart = remote
    /\ doneRemote = <<>>

\* the files the run sees
Checkout == Files(cfgDir \o buildDirRel, hasIgnore)

Call(c, a, o) == [cmd |-> c, arg |-> a, ok |-> o]

\* uncaught exception: traceback, exit status 1
Raise ==
    /\ pc' = "failed"
    /\ exitCode' = <<ExitError>>

\* lines 115-123: the entry block
Entry ==
    /\ pc = "start"
    /\ IF argCase \in {"noarg", "nofile"}
       THEN /\ pc' = "rejected"
            /\ exitCode' = <<ExitError>>
       ELSE /\ pc' = "main"
            /\ exitCode' = exitCode
    /\ UNCHANGED <<inputs, locals, remote, runs, remoteAtStart, doneRemote>>

\* lines 18-20
ParseConfig ==
    /\ pc = "main"
    /\ IF argCase = "badconfig"
       THEN /\ Raise
            /\ UNCHANGED <<config, tagged_image>>
       ELSE /\ config' = parse_config(cfgDir, buildDirRel, imageName)
            /\ tagged_image' = TaggedImage(imageName, sha)
            /\ pc' = "loaded"
            /\ exitCode' = exitCode
    /\ UNCHANGED <<inputs, exists, diff, build_context, decision, calls,
                   submitted, remote, runs, remoteAtStart, doneRemote>>

\* lines 22-24: the existence request, which the cluster may fail to answer
CheckPipelineExists ==
    /\ pc = "loaded"
    /\ \E ok \in BOOLEAN :
        /\ calls' = Append(calls, Call("pipeline_exists", "-", ok))
        /\ IF ~ok
           THEN /\ Raise
                /\ UNCHANGED <<exists, decision>>
           ELSE /\ exists' = <<check_pipeline_exists(remote)>>
                /\ exitCode' = exitCode
                /\ IF main_bootstrap(check_pipeline_exists(remote))
                   THEN decision' = "rebuild" /\ pc' = "building"
                   ELSE decision' = decision /\ pc' = "diff"
    /\ UNCHANGED <<inputs, config, tagged_image, diff, build_context,
                   submitted, remote, runs, remoteAtStart, doneRemote>>

\* lines 26-30
GitDiff ==
    /\ pc = "diff"
    /\ calls' = Append(calls, Call("git", "-", hasParent))
    /\ diff' = git_diff(gitOut)
    /\ IF main_spec_changed(config, git_diff(gitOut))
       THEN decision' = "rebuild" /\ pc' = "building"
       ELSE decision' = decision /\ pc' = "context"
    /\ UNCHANGED <<inputs, config, tagged_image, exists, build_context,
                   submitted, remote, exitCode, runs, remoteAtStart, doneRemote>>

\* lines 32-42
ListContext ==
    /\ pc = "context"
    /\ calls' = Append(calls, Call("rsync", "-", TRUE))
    /\ build_context' = list_docker_context(resolve(config.docker_context), Checkout)
    /\ LET found == main_loop(diff, list_docker_context(resolve(config.docker_context), Checkout))
       IN  /\ decision' = IF found THEN "rebuild" ELSE "skip"
           /\ pc' = main_after_loop(found)
           /\ exitCode' = IF main_after_loop(found) = "skipped"
                           THEN <<ExitOk>> ELSE exitCode
    /\ UNCHANGED <<inputs, config, tagged_image, exists, diff, submitted,
                   remote, runs, remoteAtStart, doneRemote>>

\* line 110
BuildImage ==
    /\ pc = "building"
    /\ \E ok \in BOOLEAN :
        /\ calls' = Append(calls, Call("build", tagged_image, ok))
        /\ IF build_image(ok) = "raise"
           THEN Raise
           ELSE pc' = "publishing" /\ exitCode' = exitCode
    /\ UNCHANGED <<inputs, config, tagged_image, exists, diff, build_context,
                   decision, submitted, remote, runs, remoteAtStart, doneRemote>>

\* line 111
PushImage ==
    /\ pc = "publishing"
    /\ \E loginOk, pushOk \in BOOLEAN :
        LET r == push_image(tagged_image, loginOk, pushOk) IN
        /\ calls' = calls \o r.issued
        /\ IF r.result = "raise"
           THEN Raise
           ELSE pc' = "updating" /\ exitCode' = exitCode
    /\ UNCHANGED <<inputs, config, tagged_image, exists, diff, build_context,
                   decision, submitted, remote, runs, remoteAtStart, doneRemote>>

\* line 112, then exit(0) of lines 24 and 30 or the normal end of main
UpdatePipeline ==
    /\ pc = "updating"
    /\ \E ok \in BOOLEAN :
        LET r == update_pipeline(specDoc, tagged_image, remote, ok) IN
        /\ submitted' = r.submitted
        /\ remote' = r.cluster
        /\ calls' = IF r.submitted = Absent THEN calls
                    ELSE Append(calls, Call("upsert", tagged_image, ok))
        /\ IF r.result = "raise"
           THEN /\ Raise
                /\ doneRemote' = doneRemote
           ELSE /\ pc' = "done"
                /\ exitCode' = <<ExitOk>>
                /\ doneRemote' = Append(doneRemote, r.cluster)
    /\ UNCHANGED <<inputs, config, tagged_image, exists, diff, build_context,
                   decision, runs, remoteAtStart>>

\* the workflow is run again on the same commit
Rerun ==
    /\ pc \in {"rejected", "failed", "skipped", "done"}
    /\ runs < MaxRuns
    /\ runs' = runs + 1
    /\ pc' = "start"
    /\ exitCode' = <<>>
    /\ config' = Absent
    /\ tagged_image' = ""
    /\ exists' = <<>>
    /\ diff' = <<>>
    /\ build_context' = {}
    /\ decision' = "none"
    /\ calls' = <<>>
    /\ submitted' = Absent
    /\ remoteAtStart' = remote
    /\ UNCHANGED <<inputs, remote, doneRemote>>

Next ==
    \/ Entry
    \/ ParseConfig
    \/ CheckPipelineExists
    \/ GitDiff
    \/ ListContext
    \/ BuildImage
    \/ PushImage
    \/ UpdatePipeline
    \/ Rerun

Spec == Init /\ [][Next]_vars

TypeOK ==
    /\ pc \in {"start", "main", "loaded", "diff", "context", "building",
               "publishing", "updating", "done", "skipped", "failed", "rejected"}
    /\ exitCode \in {<<>>, <<ExitOk>>, <<ExitError>>}
    /\ decision \in {"none", "rebuild", "skip"}
    /\ runs \in 1..MaxRuns

----------------------------------------------------------------------------
(* Vocabulary of the properties *)

Cmds(cs) == [i \in 1..Len(cs) |-> cs[i].cmd]

IsStage(c) == c.cmd \in {"build", "login", "push", "upsert"}

\* the build / publish / update commands the run has issued, in order
StageCalls == SelectSeq(calls, IsStage)

StageOrder == <<"build", "login", "push", "upsert">>

Terminal == pc \in {"rejected", "failed", "skipped", "done"}

\* the path main compares with the diff
SpecPath == resolve(config.pipeline_spec)

\* Build Context Membership: the files under build_dir that the ignore list
\* does not exclude
BuildContext ==
    LET bd == resolve(config.docker_context)
        patterns == IF hasIgnore THEN IgnorePatterns ELSE {}
    IN  {f \in Checkout : /\ IsPrefix(bd, f)
                          /\ f # bd
                          /\ ~Excluded(Drop(f, Len(bd)), patterns)}

\* the sequences with the same set of elements as s: its permutations and
\* the sequences that repeat some of its elements
SameSet(s) ==
    {t \in UNION {[1..k -> Range(s)] : k \in 0..(MaxDiff + 1)} : Range(t) = Range(s)}

----------------------------------------------------------------------------
(* C1 *)

\* C1: whenever the existence check has answered that the pipeline does not
\* exist, the run has decided to rebuild and is in the build / publish /
\* update sequence; neither the diff nor the build context has been
\* computed, and a run that ends Done has built, pushed and updated.
C1_Bootstrap ==
    exists = <<FALSE>> =>
        /\ decision = "rebuild"
        /\ pc \in {"building", "publishing", "updating", "done", "failed"}
        /\ diff = <<>> /\ build_context = {}
        /\ \A c \in Range(calls) : c.cmd \notin {"git", "rsync"}
        /\ pc = "done" => Cmds(StageCalls) = StageOrder

\* a bootstrap run with an empty diff that went through to Done
C1_Witness ==
    /\ exists = <<FALSE>>
    /\ gitOut = <<>>
    /\ pc = "done"
    /\ Cmds(StageCalls) = StageOrder

----------------------------------------------------------------------------
(* C2 *)

\* C2: when the pipeline spec path is among the changed paths, the run never
\* reaches the build context test and never decides to skip; once it has
\* decided, the decision is rebuild.
C2_SpecInDiff ==
    (config # Absent /\ SpecPath \in Range(git_diff(gitOut))) =>
        /\ pc \notin {"context", "skipped"}
        /\ decision # "skip"
        /\ build_context = {}
        /\ (exists = <<TRUE>> /\ diff # <<>>) => decision = "rebuild"

\* the pipeline exists, the spec file is the only changed file (so no changed
\* file lies in the build context) and the run rebuilt
C2_Witness ==
    /\ exists = <<TRUE>>
    /\ config # Absent
    /\ Range(diff) = {SpecPath}
    /\ SpecPath \notin BuildContext
    /\ decision = "rebuild"
    /\ pc = "done"

----------------------------------------------------------------------------
(* C3 *)

\* C3: when the pipeline exists and the spec file is not in the diff, the
\* decision is rebuild if and only if some changed path is a file of the
\* build context (a file under build_dir that is not ignore-listed), and
\* skip otherwise.
C3_ContextIff ==
    (exists = <<TRUE>> /\ decision # "none" /\ SpecPath \notin Range(diff)) =>
        /\ decision = "rebuild" <=> (\E i \in DOMAIN diff : diff[i] \in BuildContext)
        /\ decision = "skip" <=> ~(\E i \in DOMAIN diff : diff[i] \in BuildContext)

----------------------------------------------------------------------------
(* C4 *)

\* C4: with an empty diff (also when git has no previous commit to compare
\* with) and an existing pipeline, the run does not fail and does not build:
\* it goes through the diff and the context listing and ends Skipped with
\* exit status 0.
C4_EmptyDiffSkips ==
    (exists = <<TRUE>> /\ gitOut = <<>>) =>
        /\ pc \in {"diff", "context", "skipped"}
        /\ StageCalls = <<>>
        /\ pc = "skipped" => (decision = "skip" /\ exitCode = <<ExitOk>>)
        /\ pc # "skipped" => (decision = "none" /\ exitCode = <<>>)

\* a run without a previous commit that ended Skipped
C4_Witness ==
    /\ exists = <<TRUE>>
    /\ ~hasParent
    /\ diff = <<>>
    /\ pc = "skipped"
    /\ exitCode = <<ExitOk>>

----------------------------------------------------------------------------
(* C10 *)

\* C10: when main has just decided (the run enters the build or ends
\* Skipped), its decision is the decision it takes for every sequence with
\* the same set of changed paths as the diff (its permutations and its
\* repetitions), the existence answer, spec path and build context being
\* the same.
C10_OrderIrrelevant ==
    (pc \in {"building", "skipped"} /\ exists # <<>>) =>
        LET ctx == list_docker_context(resolve(config.docker_context), Checkout)
        IN  \A t \in SameSet(gitOut) :
                Decide(exists[1], config, git_diff(t), ctx) = decision

\* a rebuild decided on the second changed file, the first one lying outside
\* the build context
C10_Witness ==
    /\ exists = <<TRUE>>
    /\ decision = "rebuild"
    /\ Len(diff) = 2
    /\ SpecPath \notin Range(diff)
    /\ diff[1] \notin build_context
    /\ diff[2] \in build_context

----------------------------------------------------------------------------
(* C5 *)

\* C5: the build, login, push and upsert commands of a run are issued in
\* that order and at most once each; a command is issued only after every
\* earlier one has succeeded; build and push carry the tagged image of the
\* run; a run whose build has succeeded is in the publish step, and a run is
\* Done exactly when all four commands have succeeded.
C5_StageOrder ==
    LET n == Len(StageCalls) IN
    /\ IsPrefix(Cmds(StageCalls), StageOrder)
    /\ \A i \in 1..(n - 1) : StageCalls[i].ok
    /\ \A c \in Range(StageCalls) : c.cmd # "login" => c.arg = tagged_image
    /\ n > 0 => decision = "rebuild"
    /\ pc = "building" => n = 0
    /\ (n = 1 /\ StageCalls[1].ok) <=> pc = "publishing"
    /\ pc = "updating" => (n = 3 /\ StageCalls[3].ok)
    /\ (n = 4 /\ StageCalls[4].ok) <=> pc = "done"

\* a run that went through the four commands
C5_Witness ==
    /\ pc = "done"
    /\ Cmds(StageCalls) = StageOrder
    /\ \A c \in Range(StageCalls) : c.ok

----------------------------------------------------------------------------
(* C6 *)

\* C6: a failed build, login, push or upsert is the last command of the run:
\* the run is Failed with a nonzero exit status, no command follows it and
\* none is issued twice.  After a failed build, login or push no document
\* has been submitted and the cluster's definition is the one the run
\* started with; a failed upsert leaves it unchanged too.
C6_FailureStops ==
    /\ \A i \in DOMAIN calls :
         (IsStage(calls[i]) /\ ~calls[i].ok) =>
            /\ i = Len(calls)
            /\ pc = "failed"
            /\ exitCode = <<ExitError>>
            /\ remote = remoteAtStart
            /\ calls[i].cmd # "upsert" =>
                  (submitted = Absent /\ "upsert" \notin Range(Cmds(calls)))
    /\ \A i, j \in DOMAIN StageCalls : StageCalls[i].cmd = StageCalls[j].cmd => i = j
    /\ pc = "failed" => (exitCode = <<ExitError>> /\ ExitError # 0)

\* a run whose push failed after a successful build and login
C6_Witness ==
    /\ pc = "failed"
    /\ Len(StageCalls) = 3
    /\ StageCalls[1].ok /\ StageCalls[2].ok
    /\ StageCalls[3].cmd = "push" /\ ~StageCalls[3].ok
    /\ remote = remoteAtStart

----------------------------------------------------------------------------
(* C7 *)

\* C7: a Done run and a Skipped run have exit status 0; a run that decided
\* to skip is Skipped at once and has issued no build, login, push or
\* upsert and left the cluster's definition alone; a run without a config
\* argument or with a config path that is not a file has exit status 1 and
\* has called no collaborator.
C7_ExitCodes ==
    /\ pc = "done" => exitCode = <<ExitOk>>
    /\ pc = "skipped" => (exitCode = <<ExitOk>> /\ decision = "skip")
    /\ decision = "skip" =>
          /\ pc = "skipped"
          /\ StageCalls = <<>>
          /\ submitted = Absent
          /\ remote = remoteAtStart
    /\ (argCase \in {"noarg", "nofile"} /\ pc # "start") =>
          /\ pc = "rejected"
          /\ exitCode = <<ExitError>>
          /\ calls = <<>>
    /\ pc = "rejected" => argCase \in {"noarg", "nofile"}
    /\ Terminal <=> exitCode # <<>>
    /\ ExitOk = 0 /\ ExitError = 1

\* a changed file outside the build context: Skipped with exit status 0
C7_Witness ==
    /\ pc = "skipped"
    /\ diff = <<Cwd \o <<"docs", "r">>>>
    /\ exitCode = <<ExitOk>>
    /\ StageCalls = <<>>

----------------------------------------------------------------------------
(* C8 *)

\* C8: the document submitted to the cluster has the keys of the loaded
\* pipeline spec and the same value under every key but transform; its
\* transform has the keys of the loaded one plus image and the same value
\* under every key but image; its transform.image is image_name:sha, the
\* image this run built and pushed.
C8_OnlyImageChanges ==
    submitted # Absent =>
        /\ DOMAIN submitted = DOMAIN specDoc
        /\ \A k \in DOMAIN specDoc \ {"transform"} : submitted[k] = specDoc[k]
        /\ DOMAIN submitted.transform = DOMAIN specDoc.transform \cup {"image"}
        /\ \A k \in DOMAIN specDoc.transform \ {"image"} :
              submitted.transform[k] = specDoc.transform[k]
        /\ submitted.transform.image = imageName \o ":" \o sha
        /\ \E i, j \in DOMAIN calls :
              /\ i < j
              /\ calls[i] = Call("build", submitted.transform.image, TRUE)
              /\ calls[j] = Call("push", submitted.transform.image, TRUE)
        /\ pc = "done" => remote = submitted

\* a Done run on a spec whose transform has other keys and an older image
C8_Witness ==
    /\ pc = "done"
    /\ submitted # Absent
    /\ "image" \in DOMAIN specDoc.transform
    /\ "cmd" \in DOMAIN specDoc.transform
    /\ specDoc.transform.image # submitted.transform.image

----------------------------------------------------------------------------
(* C9 *)

\* C9: replacing the image of the submitted document by the same image again
\* gives the same document; a submission the cluster answers succeeds and
\* leaves the submitted document as the pipeline's definition, whether or
\* not the pipeline existed before; and every Done run on the same commit
\* leaves the same definition on the cluster.
C9_Idempotent ==
    /\ submitted # Absent => UpdatedDoc(submitted, tagged_image) = submitted
    /\ (calls # <<>> /\ calls[Len(calls)] = Call("upsert", tagged_image, TRUE)) =>
          (pc = "done" /\ remote = submitted)
    /\ \A i, j \in DOMAIN doneRemote : doneRemote[i] = doneRemote[j]

\* the second Done run on the same commit: the pipeline existed beforehand
\* with the definition the first run submitted
C9_Witness ==
    /\ pc = "done"
    /\ Len(doneRemote) = 2
    /\ remoteAtStart = submitted
    /\ remote = submitted

====
